---- MODULE Spec2Model ----
(***************************************************************************)
(* Model of the BAPS AI frontend CDK application: the pipeline declared by *)
(* PipelineStack (pipeline-stack.ts) and the resources declared by         *)
(* InfrastructureStack (infrastructure-stack.ts).  The descriptors are     *)
(* data; the state machine is what the managed pipeline runner does with   *)
(* them: executions move through the stages Source, Build and Deploy, and  *)
(* the shell commands of the build and publish steps act on the working    *)
(* directory, the artifact and the bucket.                                 *)
(***************************************************************************)
EXTENDS Integers, Sequences, FiniteSets, TLC

VARIABLES
    executionMode,  \* how the runner admits executions to a stage
    at,             \* per execution: idle, the stage it is in, waiting, ended
    status,         \* per execution and step: pending, running, succeeded, failed
    built,          \* per execution: the candidate directories npm run build left
    staged,         \* per execution: build-output as exported (primaryOutput)
    outputVars,     \* per execution: the stack outputs its deploy produced
    env,            \* per execution: the environment the publish step got
    pubPc,          \* per execution: position in the publish commands
    plan,           \* per execution: transfers the running sync still has to do
    overlapped,     \* per execution: its sync ran while another one's did
    lastSync,       \* the execution whose sync completed last, 0 while one runs
    touched,        \* per execution: what it has mutated (bucket, cache)
    bucket,         \* object key -> content, NoFile when there is no object
    resources,      \* the provisioned resources of the infrastructure stack
    webAcl,         \* the live firewall policy, NoAcl before the first apply
    calls,          \* API calls made by the steps' roles, with their verdict
    work            \* the working directory of the staging check

vars == <<executionMode, at, status, built, staged, outputVars, env, pubPc,
          plan, overlapped, lastSync, touched, bucket, resources, webAcl, calls, work>>

(***************************************************************************)
(* Bounds of the model.                                                    *)
(***************************************************************************)
NumExecutions == 2
MaxCalls == 2

Executions == 1..NumExecutions

(***************************************************************************)
(* Files.  A file of candidate directory d is represented by d itself, so  *)
(* that the same name coming from two candidates has two contents.         *)
(***************************************************************************)
Names == {"index.html", "app.js", ".nojekyll"}
NoFile == "-"
Undefined == "undefined"

\* The shell's * does not match a name that starts with a dot.
GlobStar(files) == {n \in files : n \notin {".nojekyll"}}

\* The three candidate output directories, in the order the commands probe them.
Candidates == <<".next/out", "out", "dist">>
CandidateSet == {Candidates[i] : i \in 1..Len(Candidates)}

\* What npm run build may leave: each candidate is missing or holds some files.
DirStates == {[exists |-> FALSE, files |-> {}]}
                 \cup {[exists |-> TRUE, files |-> f] : f \in SUBSET Names}
Dirs == [CandidateSet -> DirStates]
EmptyDir == [n \in Names |-> NoFile]
NoDirs == [d \in CandidateSet |-> [exists |-> FALSE, files |-> {}]]
Keys(dir) == {n \in Names : dir[n] # NoFile}

(***************************************************************************)
(* The staging commands of BuildFrontendArtifacts.                         *)
(***************************************************************************)
\* mkdir -p build-output
MkdirBuildOutput == [rc |-> 0, out |-> EmptyDir]

\* cp -r d/* build-output/ : every matched entry is copied over what is there;
\* with nothing matched the pattern stays as it is and cp fails on it.
CpNoClobber(out, d, files) ==
    IF GlobStar(files) = {} THEN [rc |-> 1, out |-> out]
    ELSE [rc |-> 0,
          out |-> [n \in Names |->
                     IF n \in GlobStar(files) /\ out[n] = NoFile THEN d ELSE out[n]]]
CpRecursive(out, d, files) ==
    IF GlobStar(files) = {} THEN [rc |-> 1, out |-> out]
    ELSE [rc |-> 0,
          out |-> [n \in Names |-> IF n \in GlobStar(files) THEN d ELSE out[n]]]

\* if [ -d "d" ]; then cp -r d/* build-output/; fi
CopyCandidate(out, d, dir) ==
    IF dir.exists THEN CpRecursive(out, d, dir.files) ELSE [rc |-> 0, out |-> out]

\* The commands run in order and the first non-zero exit ends the build.
RECURSIVE StageFrom(_, _, _)
StageFrom(i, r, dirs) ==
    IF i > Len(Candidates) \/ r.rc # 0 THEN r
    ELSE StageFrom(i + 1, CopyCandidate(r.out, Candidates[i], dirs[Candidates[i]]), dirs)
StageArtifacts(dirs) == StageFrom(1, MkdirBuildOutput, dirs)

(***************************************************************************)
(* The pipeline descriptor: PipelineStack's constructor.                   *)
(***************************************************************************)
Sources == {"CdkSource", "FrontendSource"}
SynthStep == "Synth"
BuildStep == "BuildFrontendArtifacts"
PublishStep == "PublishFrontendArtifacts"
InfrastructureStackId == "Infrastructure"

\* input: of each step
StepInput(s) ==
    CASE s = SynthStep -> "CdkSource"
      [] s = BuildStep -> "FrontendSource"
      [] s = PublishStep -> BuildStep
      [] OTHER -> Undefined

\* primaryOutputDirectory: of each step
PrimaryOutputDirectory(s) ==
    CASE s = SynthStep -> "cdk.out"
      [] s = BuildStep -> "build-output"
      [] OTHER -> Undefined

\* step.primaryOutput: the file set of the step's primaryOutputDirectory, known
\* when the descriptor is synthesized, whatever a later run puts in it.
PrimaryOutput(s) ==
    IF PrimaryOutputDirectory(s) # Undefined THEN s ELSE Undefined

\* deployStage.addPre(buildStep)
PreSteps == {BuildStep}
\* pipeline.addStage(deployStageInstance): the stacks of DeployStage
StageStacks == {InfrastructureStackId}
\* if (buildStep.primaryOutput) { ... deployStage.addPost(publishFrontendStep) }
PostSteps == IF PrimaryOutput(BuildStep) # Undefined THEN {PublishStep} ELSE {}

\* envFromCfnOutputs of the publish step: variable -> output of the stack
EnvFromCfnOutputs ==
    [FRONTEND_BUCKET_NAME |-> "BucketName",
     CLOUDFRONT_DISTRIBUTION_ID |-> "DistributionId"]

PipelineSteps == Sources \cup {SynthStep} \cup PreSteps \cup StageStacks \cup PostSteps

Stages == <<"Source", "Build", "Deploy">>
StageOf(s) ==
    CASE s \in Sources -> "Source"
      [] s = SynthStep -> "Build"
      [] OTHER -> "Deploy"
StepsOf(stage) == {s \in PipelineSteps : StageOf(s) = stage}

\* The steps of its stage a step waits for: the stacks of a stage follow its pre
\* steps, its post steps follow the stacks; a step follows the producer of its
\* input and the stack whose outputs it reads.
PostStepsIgnoreStacks(s) ==
    CASE s \in StageStacks -> PreSteps
      [] s \in PostSteps -> {StepInput(s)} \cap PipelineSteps
      [] OTHER -> {}
StacksIgnorePreSteps(s) ==
    CASE s \in PreSteps -> {}
      [] s \in StageStacks -> {}
      [] s \in PostSteps -> StageStacks
      [] OTHER -> {}
DependsOn(s) ==
    CASE s \in StageStacks -> PreSteps
      [] s \in PostSteps -> StageStacks \cup ({StepInput(s)} \cap StepsOf("Deploy"))
      [] OTHER -> {}

(***************************************************************************)
(* The roles of the CodeBuild steps.                                       *)
(***************************************************************************)
SecretsActions == {"secretsmanager:GetSecretValue", "secretsmanager:DescribeSecret"}
ParameterActions == {"ssm:GetParameter", "ssm:GetParameters"}
StorageActions == {"s3:PutObject", "s3:DeleteObject", "s3:ListBucket", "s3:GetObject"}
CdnActions == {"cloudfront:CreateInvalidation"}
ApiActions == SecretsActions \cup ParameterActions \cup StorageActions \cup CdnActions
CodeBuildSteps == {SynthStep, BuildStep, PublishStep}

\* codeBuildDefaults.rolePolicy: added to the role of every CodeBuild project
\* of the pipeline.
CodeBuildDefaultsRolePolicy == SecretsActions

\* rolePolicyStatements: of each step
RolePolicyStatements(s) ==
    CASE s = BuildStep -> ParameterActions
      [] s = PublishStep -> StorageActions \cup CdnActions
      [] OTHER -> {}

RolePolicyPerStep(s) ==
    IF s = SynthStep THEN SecretsActions ELSE RolePolicyStatements(s)
RolePolicy(s) == CodeBuildDefaultsRolePolicy \cup RolePolicyStatements(s)

(***************************************************************************)
(* The infrastructure descriptor: InfrastructureStack's constructor.       *)
(***************************************************************************)
FrontendBucket == "FrontendBucket"
Distribution == "Distribution"
StackResources ==
    {FrontendBucket, "WebACL", Distribution, "WebACLAssociation", "AliasRecord"}

\* removalPolicy: RETAIN on the bucket; every other resource has the default.
DestroyAll(r) == "DESTROY"
RemovalPolicy(r) == IF r = FrontendBucket THEN "RETAIN" ELSE "DESTROY"
\* autoDeleteObjects: false
AutoDeleteObjects == FALSE

\* bucketName, and the id the provider gives the distribution
BucketName == "baps-ai-frontend-233573279794-us-east-2"
DistributionId == "distribution-id"
NoOutputs == [BucketName |-> Undefined, DistributionId |-> Undefined]
\* bucketNameOutput, distributionIdOutput
StackOutputs == [BucketName |-> BucketName, DistributionId |-> DistributionId]

\* The rules of the web ACL as the README lists them.
ReadmeRules ==
    {[name |-> "AWSManagedRulesCommonRuleSet", priority |-> 1,
      overrideAction |-> "none", statement |-> "managedRuleGroup"],
     [name |-> "AWSManagedRulesKnownBadInputsRuleSet", priority |-> 2,
      overrideAction |-> "none", statement |-> "managedRuleGroup"],
     [name |-> "AWSManagedRulesLinuxRuleSet", priority |-> 3,
      overrideAction |-> "none", statement |-> "managedRuleGroup"],
     [name |-> "RateLimit", priority |-> 4,
      overrideAction |-> "none", statement |-> "rateBased"]}
\* rules: of the web ACL
WebAclRules ==
    {[name |-> "AWSManagedRulesCommonRuleSet", priority |-> 1,
      overrideAction |-> "none", statement |-> "managedRuleGroup"],
     [name |-> "AWSManagedRulesKnownBadInputsRuleSet", priority |-> 2,
      overrideAction |-> "none", statement |-> "managedRuleGroup"]}
\* new wafv2.CfnWebACL(...)
DeclaredWebAcl ==
    [live |-> TRUE, scope |-> "CLOUDFRONT", defaultAction |-> "allow",
     rules |-> WebAclRules]
NoAcl == [live |-> FALSE, scope |-> "", defaultAction |-> "", rules |-> {}]

\* cdk deploy of the stack: every declared resource exists afterwards.
ApplyInfrastructure(res) == res \cup StackResources

\* cdk destroy of the stack: a resource goes unless its removal policy retains
\* it; a bucket that still holds objects is deleted only with autoDeleteObjects.
DestroyInfrastructure(res, objects) ==
    {r \in res : \/ RemovalPolicy(r) = "RETAIN"
                 \/ (r = FrontendBucket /\ Keys(objects) # {} /\ ~AutoDeleteObjects)}

(***************************************************************************)
(* The publish commands.                                                   *)
(***************************************************************************)
NoEnv == [v \in DOMAIN EnvFromCfnOutputs |-> Undefined]

\* aws s3 sync . s3://$FRONTEND_BUCKET_NAME --delete: an upload for every local
\* file the bucket lacks or holds differently, a delete for every object that
\* is no local file.
SyncWithoutDelete(local, remote) ==
    {[kind |-> "upload", key |-> n] : n \in {k \in Keys(local) : remote[k] # local[k]}}
SyncPlan(local, remote) ==
    {[kind |-> "upload", key |-> n] : n \in {k \in Keys(local) : remote[k] # local[k]}}
        \cup {[kind |-> "delete", key |-> n] : n \in Keys(remote) \ Keys(local)}

Transfer(op, local, remote) ==
    [remote EXCEPT ![op.key] = IF op.kind = "upload" THEN local[op.key] ELSE NoFile]

(***************************************************************************)
(* The pipeline runner.                                                    *)
(***************************************************************************)
\* The files the frontend build emits in a pipeline run.
FrontendFiles == {"index.html", ".nojekyll"}
BuildLayouts == {dirs \in Dirs : \A d \in CandidateSet : dirs[d].files \subseteq FrontendFiles}

\* What a build left: whether any candidate directory exists, and the files of
\* the candidates that do.
NoBuilt == [done |-> FALSE, any |-> FALSE, files |-> {}]
Produced(dirs) ==
    [done |-> TRUE,
     any |-> \E d \in CandidateSet : dirs[d].exists,
     files |-> UNION {dirs[d].files : d \in CandidateSet}]
NoStaged == [exported |-> FALSE, files |-> EmptyDir]
IdleWork == [pc |-> 0, rc |-> 0, dirs |-> NoDirs, out |-> EmptyDir]

\* The pipeline declares no executionMode: a stage holds one execution at a
\* time.  In PARALLEL mode executions do not wait for each other.
StageFree(e, stage) ==
    \/ executionMode = "PARALLEL"
    \/ \A o \in Executions \ {e} : at[o] # stage

StageDone(st, stage) == \A s \in StepsOf(stage) : st[s] = "succeeded"
NextStage(st) ==
    Stages[CHOOSE i \in 1..Len(Stages) :
              /\ ~StageDone(st, Stages[i])
              /\ \A j \in 1..(i - 1) : StageDone(st, Stages[j])]

\* The runner starts every step of the stage whose predecessors have succeeded.
Launch(st, stage) ==
    [s \in PipelineSteps |->
       IF /\ StageOf(s) = stage
          /\ st[s] = "pending"
          /\ \A d \in DependsOn(s) : st[d] = "succeeded"
       THEN "running" ELSE st[s]]

\* The execution enters a stage.
Enters(e, stage) ==
    /\ status' = [status EXCEPT ![e] = Launch(@, stage)]
    /\ at' = [at EXCEPT ![e] = stage]

\* A step succeeds: its successors start; with the last step of the stage the
\* execution leaves it, and with the last step of the pipeline it ends.
Succeeded(e, s) ==
    LET st == [status[e] EXCEPT ![s] = "succeeded"] IN
    /\ status' = [status EXCEPT ![e] = Launch(st, StageOf(s))]
    /\ at' = [at EXCEPT ![e] =
                 IF ~StageDone(st, StageOf(s)) THEN @
                 ELSE IF \A x \in PipelineSteps : st[x] = "succeeded" THEN "ended"
                 ELSE "waiting"]

\* A step fails: the execution ends, and what still runs is stopped.
Failed(e, s) ==
    /\ status' = [status EXCEPT ![e] =
                     [x \in PipelineSteps |->
                        IF x = s THEN "failed"
                        ELSE IF status[e][x] = "running" THEN "stopped"
                        ELSE status[e][x]]]
    /\ at' = [at EXCEPT ![e] = "ended"]

\* The publish step, when this step of the runner starts it, gets its
\* environment from the outputs of this execution's deploy.
PublishStarts(e) ==
    status'[e][PublishStep] = "running" /\ status[e][PublishStep] = "pending"
StepEnvironment(e) ==
    /\ env' = IF PublishStarts(e)
              THEN [env EXCEPT ![e] =
                      [v \in DOMAIN EnvFromCfnOutputs |->
                         outputVars'[e][EnvFromCfnOutputs[v]]]]
              ELSE env
    /\ pubPc' = IF PublishStarts(e) THEN [pubPc EXCEPT ![e] = "sync"] ELSE pubPc

\* The working data of an execution that has ended is dropped.
Drop(f, e, empty) == IF at'[e] = "ended" THEN [f EXCEPT ![e] = empty] ELSE f

Infra == <<resources, webAcl>>
Side == <<executionMode, calls, work>>
Syncing == <<plan, overlapped, lastSync, touched, bucket>>

StartExecution(e) ==
    /\ at[e] = "idle"
    /\ StageFree(e, Stages[1])
    /\ Enters(e, Stages[1])
    /\ UNCHANGED outputVars
    /\ StepEnvironment(e)
    /\ UNCHANGED <<built, staged, Syncing, Infra, Side>>

EnterStage(e) ==
    /\ at[e] = "waiting"
    /\ StageFree(e, NextStage(status[e]))
    /\ Enters(e, NextStage(status[e]))
    /\ UNCHANGED outputVars
    /\ StepEnvironment(e)
    /\ UNCHANGED <<built, staged, Syncing, Infra, Side>>

\* A source action or the synth step ends.
FinishStep(e, s, ok) ==
    /\ s \in Sources \cup {SynthStep}
    /\ status[e][s] = "running"
    /\ IF ok THEN Succeeded(e, s) ELSE Failed(e, s)
    /\ UNCHANGED outputVars
    /\ StepEnvironment(e)
    /\ UNCHANGED <<built, staged, Syncing, Infra, Side>>

\* npm ci or npm run build returns non-zero.
BuildFails(e) ==
    /\ status[e][BuildStep] = "running"
    /\ Failed(e, BuildStep)
    /\ UNCHANGED <<built, staged, outputVars, env, pubPc, Syncing, Infra, Side>>

\* What a build that returns zero can come to: what it left, and what the
\* staging commands made of it.
BuildOutcomes ==
    {[produced |-> Produced(dirs), staging |-> StageArtifacts(dirs)] :
        dirs \in BuildLayouts}

\* npm run build returns zero; the staging commands run; the build-output
\* directory is exported as the step's output.  Exporting a directory without
\* files is the build service's business: either outcome.
BuildRuns(e, b, emptyExportOk) ==
    LET ok == b.staging.rc = 0 /\ (Keys(b.staging.out) # {} \/ emptyExportOk) IN
    /\ status[e][BuildStep] = "running"
    /\ IF ok THEN Succeeded(e, BuildStep) ELSE Failed(e, BuildStep)
    /\ built' = Drop([built EXCEPT ![e] = b.produced], e, NoBuilt)
    /\ staged' = Drop([staged EXCEPT ![e] =
                         [exported |-> TRUE, files |-> b.staging.out]], e, NoStaged)
    /\ UNCHANGED outputVars
    /\ StepEnvironment(e)
    /\ UNCHANGED <<Syncing, Infra, Side>>

\* The deploy of the infrastructure stack ends; a rejected deploy is rolled back.
FinishDeploy(e, ok) ==
    /\ status[e][InfrastructureStackId] = "running"
    /\ IF ok
       THEN /\ Succeeded(e, InfrastructureStackId)
            /\ resources' = ApplyInfrastructure(resources)
            /\ webAcl' = DeclaredWebAcl
            /\ outputVars' = [outputVars EXCEPT ![e] = StackOutputs]
       ELSE /\ Failed(e, InfrastructureStackId)
            /\ UNCHANGED <<resources, webAcl, outputVars>>
    /\ StepEnvironment(e)
    /\ built' = Drop(built, e, NoBuilt)
    /\ staged' = Drop(staged, e, NoStaged)
    /\ UNCHANGED <<Syncing, Side>>

\* The publish step ends one way or the other.
PublishEnds(e, ok) ==
    /\ IF ok THEN Succeeded(e, PublishStep) ELSE Failed(e, PublishStep)
    /\ pubPc' = [pubPc EXCEPT ![e] = IF ok THEN "done" ELSE "failed"]
    /\ plan' = [plan EXCEPT ![e] = {}]
    /\ built' = [built EXCEPT ![e] = NoBuilt]
    /\ staged' = [staged EXCEPT ![e] = NoStaged]
    /\ outputVars' = [outputVars EXCEPT ![e] = NoOutputs]
    /\ env' = [env EXCEPT ![e] = NoEnv]

\* aws s3 sync begins: it lists the directory and the bucket and settles what to
\* transfer.  Without a bucket name, or without the bucket, the command fails.
SyncList(e) ==
    /\ status[e][PublishStep] = "running"
    /\ pubPc[e] = "sync"
    /\ IF env[e].FRONTEND_BUCKET_NAME = BucketName /\ FrontendBucket \in resources
       THEN /\ plan' = [plan EXCEPT ![e] = SyncPlan(staged[e].files, bucket)]
            /\ pubPc' = [pubPc EXCEPT ![e] = "transfer"]
            /\ overlapped' = [o \in Executions |->
                                IF \E x \in Executions \ {e} : pubPc[x] = "transfer"
                                THEN overlapped[o] \/ o = e \/ pubPc[o] = "transfer"
                                ELSE overlapped[o]]
            /\ lastSync' = 0
            /\ UNCHANGED <<at, status, built, staged, outputVars, env>>
       ELSE /\ PublishEnds(e, FALSE)
            /\ UNCHANGED <<overlapped, lastSync>>
    /\ UNCHANGED <<touched, bucket, Infra, Side>>

\* One upload or delete of the running sync.
SyncTransfer(e, op) ==
    /\ pubPc[e] = "transfer"
    /\ op \in plan[e]
    /\ bucket' = Transfer(op, staged[e].files, bucket)
    /\ plan' = [plan EXCEPT ![e] = @ \ {op}]
    /\ touched' = [touched EXCEPT ![e] = @ \cup {"bucket"}]
    /\ UNCHANGED <<at, status, built, staged, outputVars, env, pubPc, overlapped,
                   lastSync, Infra, Side>>

\* The sync has nothing left to transfer and returns zero.
SyncComplete(e) ==
    /\ pubPc[e] = "transfer"
    /\ plan[e] = {}
    /\ pubPc' = [pubPc EXCEPT ![e] = "invalidate"]
    /\ lastSync' = e
    /\ UNCHANGED <<at, status, built, staged, outputVars, env, plan, overlapped,
                   touched, bucket, Infra, Side>>

\* The commands joined so that a failed sync is passed over.
SyncFailsIgnored(e) ==
    /\ pubPc[e] = "transfer"
    /\ pubPc' = [pubPc EXCEPT ![e] = "invalidate"]
    /\ UNCHANGED <<at, status, built, staged, outputVars, env, plan, overlapped,
                   lastSync, touched, bucket, Infra, Side>>
\* The sync returns non-zero, wherever it is: the later commands do not run.
SyncFails(e) ==
    /\ pubPc[e] = "transfer"
    /\ PublishEnds(e, FALSE)
    /\ UNCHANGED <<overlapped, lastSync, touched, bucket, Infra, Side>>

\* aws cloudfront create-invalidation --paths "/*": the last command.
Invalidate(e, ok) ==
    /\ pubPc[e] = "invalidate"
    /\ IF /\ ok
          /\ env[e].CLOUDFRONT_DISTRIBUTION_ID = DistributionId
          /\ Distribution \in resources
       THEN /\ PublishEnds(e, TRUE)
            /\ touched' = [touched EXCEPT ![e] = @ \cup {"cache"}]
       ELSE /\ PublishEnds(e, FALSE)
            /\ UNCHANGED touched
    /\ UNCHANGED <<overlapped, lastSync, bucket, Infra, Side>>

\* An ended execution leaves the runner; its number names the next one.
Retire(e) ==
    /\ at[e] = "ended"
    /\ at' = [at EXCEPT ![e] = "idle"]
    /\ status' = [status EXCEPT ![e] = [s \in PipelineSteps |-> "pending"]]
    /\ pubPc' = [pubPc EXCEPT ![e] = "idle"]
    /\ overlapped' = [overlapped EXCEPT ![e] = FALSE]
    /\ lastSync' = IF lastSync = e THEN 0 ELSE lastSync
    /\ touched' = [touched EXCEPT ![e] = {}]
    /\ UNCHANGED <<built, staged, outputVars, env, plan, bucket, Infra, Side>>

\* No execution is running.
IdlePipeline ==
    /\ executionMode = "SUPERSEDED"
    /\ at = [e \in Executions |-> "idle"]
    /\ status = [e \in Executions |-> [s \in PipelineSteps |-> "pending"]]
    /\ built = [e \in Executions |-> NoBuilt]
    /\ staged = [e \in Executions |-> NoStaged]
    /\ outputVars = [e \in Executions |-> NoOutputs]
    /\ env = [e \in Executions |-> NoEnv]
    /\ pubPc = [e \in Executions |-> "idle"]
    /\ plan = [e \in Executions |-> {}]
    /\ overlapped = [e \in Executions |-> FALSE]
    /\ lastSync = 0
    /\ touched = [e \in Executions |-> {}]

\* The pipeline stack is deployed; the infrastructure stack is not yet.
Init ==
    /\ IdlePipeline
    /\ bucket = EmptyDir
    /\ resources = {}
    /\ webAcl = NoAcl
    /\ calls = <<>>
    /\ work = IdleWork

Next ==
    \E e \in Executions :
        \/ StartExecution(e)
        \/ EnterStage(e)
        \/ \E s \in PipelineSteps, ok \in BOOLEAN : FinishStep(e, s, ok)
        \/ BuildFails(e)
        \/ \E b \in BuildOutcomes, emptyExportOk \in BOOLEAN :
               BuildRuns(e, b, emptyExportOk)
        \/ \E ok \in BOOLEAN : FinishDeploy(e, ok)
        \/ SyncList(e)
        \/ \E op \in plan[e] : SyncTransfer(e, op)
        \/ SyncComplete(e)
        \/ SyncFails(e)
        \/ \E ok \in BOOLEAN : Invalidate(e, ok)
        \/ Retire(e)

Spec == Init /\ [][Next]_vars

(***************************************************************************)
(* Properties of the pipeline.                                             *)
(***************************************************************************)
PublishRunning(e) == pubPc[e] \in {"sync", "transfer", "invalidate"}
NoRecognizedOutput(e) == built[e].done /\ ~built[e].any

\* C1: the publish step starts only after the deploy of the infrastructure
\* stack has succeeded; while it runs the bucket and the distribution exist and
\* FRONTEND_BUCKET_NAME and CLOUDFRONT_DISTRIBUTION_ID are defined.
C1_PublishAfterDeploy ==
    \A e \in Executions :
        /\ status[e][PublishStep] # "pending"
              => status[e][InfrastructureStackId] = "succeeded"
        /\ PublishRunning(e)
              => /\ {FrontendBucket, Distribution} \subseteq resources
                 /\ env[e].FRONTEND_BUCKET_NAME # Undefined
                 /\ env[e].CLOUDFRONT_DISTRIBUTION_ID # Undefined
C1_Witness ==
    \E e \in Executions :
        /\ pubPc[e] = "transfer"
        /\ env[e].FRONTEND_BUCKET_NAME = BucketName
        /\ env[e].CLOUDFRONT_DISTRIBUTION_ID = DistributionId

\* C2 as claimed: with no recognized output directory the build step does not
\* fail, the publish step is skipped and the bucket is not changed.
C2_AsClaimed ==
    \A e \in Executions :
        NoRecognizedOutput(e)
            => /\ status[e][BuildStep] # "failed"
               /\ status[e][PublishStep] = "pending"
               /\ "bucket" \notin touched[e]
\* C2 as amended: with no recognized output directory the staged directory is
\* empty and the publish step is not skipped: it starts as soon as the deploy
\* has succeeded, and when its sync has returned zero the bucket is empty.
C2_EmptyOutputEmptiesBucket ==
    \A e \in Executions :
        NoRecognizedOutput(e)
            => /\ Keys(staged[e].files) = {}
               /\ status[e][InfrastructureStackId] = "succeeded"
                     => status[e][PublishStep] # "pending"
               /\ pubPc[e] = "invalidate" => Keys(bucket) = {}
C2_Witness ==
    \E e \in Executions :
        /\ NoRecognizedOutput(e)
        /\ pubPc[e] = "invalidate"
        /\ "bucket" \in touched[e]

\* C3 as claimed: when the sync of a publish step has returned zero, the objects
\* of the bucket are exactly the files of the build output; with the files
\* under out/ only, the files under out/.
C3_BucketMirrorsBuildOutput ==
    \A e \in Executions :
        pubPc[e] = "invalidate" => Keys(bucket) = built[e].files

\* C4: when the frontend build fails the execution ends there: the deploy and
\* the publish step have not run and do not run, and the execution has changed
\* neither the bucket nor the CDN cache.
C4_BuildFailureStopsPipeline ==
    \A e \in Executions :
        status[e][BuildStep] = "failed"
            => /\ at[e] = "ended"
               /\ status[e][InfrastructureStackId] = "pending"
               /\ status[e][PublishStep] = "pending"
               /\ touched[e] = {}
C4_Witness ==
    \E e \in Executions :
        /\ status[e][BuildStep] = "failed"
        /\ status[e][SynthStep] = "succeeded"
        /\ Keys(bucket) # {}

\* C5: synth, frontend build, deploy and publish run one at a time and in this
\* order, each after the one before has succeeded; the invalidation is issued
\* only when the sync of the same execution has returned zero, and not after a
\* failed sync.
OrderedSteps == <<SynthStep, BuildStep, InfrastructureStackId, PublishStep>>
C5_TotalOrder ==
    \A e \in Executions :
        /\ Cardinality({i \in 1..Len(OrderedSteps) :
                           status[e][OrderedSteps[i]] = "running"}) <= 1
        /\ \A i \in 2..Len(OrderedSteps) :
              status[e][OrderedSteps[i]] # "pending"
                  => status[e][OrderedSteps[i - 1]] = "succeeded"
        /\ status[e][SynthStep] # "pending"
              => \A s \in Sources : status[e][s] = "succeeded"
        /\ pubPc[e] = "invalidate" => plan[e] = {} /\ lastSync = e
        /\ "cache" \in touched[e] => status[e][PublishStep] = "succeeded"
        /\ pubPc[e] = "failed" => "cache" \notin touched[e]
C5_Witness ==
    \E e \in Executions :
        /\ "cache" \in touched[e]
        /\ "bucket" \in touched[e]
        /\ \A s \in PipelineSteps : status[e][s] = "succeeded"

(***************************************************************************)
(* Publish steps of executions that the runner lets run side by side: the  *)
(* executions have been built and deployed and their publish steps start.  *)
(***************************************************************************)
\* Builds that left one of out and dist, with files the pattern matches.
PublishLayouts ==
    {dirs \in Dirs :
        /\ ~dirs[".next/out"].exists
        /\ ~(dirs["out"].exists /\ dirs["dist"].exists)
        /\ \A d \in CandidateSet : dirs[d].files = GlobStar(dirs[d].files)
        /\ StageArtifacts(dirs).rc = 0}

InitPublish ==
    /\ executionMode = "PARALLEL"
    /\ at = [e \in Executions |-> "Deploy"]
    /\ status = [e \in Executions |->
                   [s \in PipelineSteps |->
                      IF s = PublishStep THEN "running" ELSE "succeeded"]]
    /\ \E layout \in [Executions -> PublishLayouts] :
          /\ built = [e \in Executions |-> Produced(layout[e])]
          /\ staged = [e \in Executions |->
                         [exported |-> TRUE, files |-> StageArtifacts(layout[e]).out]]
    /\ outputVars = [e \in Executions |-> StackOutputs]
    /\ env = [e \in Executions |->
                [v \in DOMAIN EnvFromCfnOutputs |-> StackOutputs[EnvFromCfnOutputs[v]]]]
    /\ pubPc = [e \in Executions |-> "sync"]
    /\ plan = [e \in Executions |-> {}]
    /\ overlapped = [e \in Executions |-> FALSE]
    /\ lastSync = 0
    /\ touched = [e \in Executions |-> {}]
    /\ bucket = EmptyDir
    /\ resources = StackResources
    /\ webAcl = DeclaredWebAcl
    /\ calls = <<>>
    /\ work = IdleWork

NextPublish ==
    \E e \in Executions :
        \/ SyncList(e)
        \/ \E op \in plan[e] : SyncTransfer(e, op)
        \/ SyncComplete(e)
        \/ SyncFails(e)
        \/ \E ok \in BOOLEAN : Invalidate(e, ok)

SpecPublish == InitPublish /\ [][NextPublish]_vars

InitStaging ==
    /\ IdlePipeline
    /\ bucket = EmptyDir
    /\ resources = {}
    /\ webAcl = NoAcl
    /\ calls = <<>>
    /\ \E dirs \in Dirs : work = [pc |-> 0, rc |-> 0, dirs |-> dirs, out |-> EmptyDir]

\* The next of: mkdir -p build-output, then one copy per candidate.
StagingCommand ==
    /\ work.rc = 0
    /\ work.pc <= Len(Candidates)
    /\ LET r == IF work.pc = 0 THEN MkdirBuildOutput
                ELSE CopyCandidate(work.out, Candidates[work.pc],
                                   work.dirs[Candidates[work.pc]]) IN
       work' = [work EXCEPT !.pc = @ + 1, !.rc = r.rc, !.out = r.out]
    /\ UNCHANGED <<executionMode, at, status, built, staged, outputVars, env, pubPc,
                   plan, overlapped, lastSync, touched, bucket, resources, webAcl,
                   calls>>

SpecStaging == InitStaging /\ [][StagingCommand]_vars

StagingDone == work.pc = Len(Candidates) + 1
Existing == {i \in 1..Len(Candidates) : work.dirs[Candidates[i]].exists}
Holding(n) == {i \in Existing : n \in work.dirs[Candidates[i]].files}
Min(S) == CHOOSE x \in S : \A y \in S : x <= y
Max(S) == CHOOSE x \in S : \A y \in S : x >= y

\* C9 as claimed: the staged directory holds exactly the files of the first
\* existing candidate, each with the content it has there (here for the
\* names the pattern * matches alone).
C9_FirstExistingWins ==
    (StagingDone /\ work.rc = 0)
        => \A n \in GlobStar(Names) :
              work.out[n] = IF Existing # {} /\ Min(Existing) \in Holding(n)
                            THEN Candidates[Min(Existing)] ELSE NoFile
\* C9 as amended: every existing candidate is copied, in the order .next/out,
\* out, dist: the staged directory holds the entries the pattern * matches of
\* all of them, a name of several with the content of the last; a candidate
\* that exists without such an entry fails the build.
C9_AllCopiedLastWins ==
    /\ work.rc # 0
          => \E i \in Existing :
                /\ work.pc = i + 1
                /\ GlobStar(work.dirs[Candidates[i]].files) = {}
    /\ (StagingDone /\ work.rc = 0)
          => \A n \in Names :
                work.out[n] = IF n \in GlobStar(Names) /\ Holding(n) # {}
                              THEN Candidates[Max(Holding(n))] ELSE NoFile
C9_Witness ==
    /\ StagingDone /\ work.rc = 0
    /\ work.dirs["out"].exists /\ work.dirs["dist"].exists
    /\ "index.html" \in work.dirs["out"].files \cap work.dirs["dist"].files
    /\ "app.js" \in work.dirs["out"].files \ work.dirs["dist"].files
    /\ work.out["index.html"] = "dist" /\ work.out["app.js"] = "out"

(***************************************************************************)
(* The API calls the roles of the CodeBuild steps allow.                   *)
(***************************************************************************)
\* A step calls an API with its role.
ApiCall(s, a) ==
    /\ Len(calls) < MaxCalls
    /\ calls' = Append(calls, [step |-> s, action |-> a, allowed |-> a \in RolePolicy(s)])
    /\ UNCHANGED <<executionMode, at, status, built, staged, outputVars, env, pubPc,
                   plan, overlapped, lastSync, touched, bucket, resources, webAcl,
                   work>>

NextIam == \E s \in CodeBuildSteps, a \in ApiActions : ApiCall(s, a)

SpecIam == Init /\ [][NextIam]_vars

\* The permissions the claim lists for each step.
ListedFor(s) ==
    CASE s = SynthStep -> SecretsActions
      [] s = BuildStep -> ParameterActions
      [] s = PublishStep -> StorageActions \cup CdnActions

\* C6 as claimed: a step is allowed only the calls listed for it.
C6_ScopedPerStep ==
    \A i \in 1..Len(calls) :
        calls[i].allowed => calls[i].action \in ListedFor(calls[i].step)
\* C6 as amended: every step may read secrets; beyond that the frontend build
\* may only read parameters, the publish step may only use the bucket and
\* create invalidations, and the synth step may do nothing.
C6_SecretsForAllStepsRestScoped ==
    \A i \in 1..Len(calls) :
        calls[i].allowed
            <=> calls[i].action \in SecretsActions \cup ListedFor(calls[i].step)
C6_Witness ==
    \E i \in 1..Len(calls) :
        /\ calls[i].step = BuildStep
        /\ calls[i].action = "secretsmanager:GetSecretValue"
        /\ calls[i].allowed

(***************************************************************************)
(* The life of the infrastructure stack: cdk deploy, cdk destroy, and the  *)
(* objects a publish step writes in between.                               *)
(***************************************************************************)
Pipeline == <<executionMode, at, status, built, staged, outputVars, env, pubPc,
              plan, overlapped, lastSync, touched>>

\* cdk deploy: the declared resources exist afterwards; a rejected deploy is
\* rolled back.
CdkDeploy(ok) ==
    /\ resources' = IF ok THEN ApplyInfrastructure(resources) ELSE resources
    /\ webAcl' = IF ok THEN DeclaredWebAcl ELSE webAcl
    /\ UNCHANGED <<bucket, Pipeline, calls, work>>

\* cdk destroy
CdkDestroy ==
    /\ resources # {}
    /\ resources' = DestroyInfrastructure(resources, bucket)
    /\ webAcl' = IF "WebACL" \in resources' THEN webAcl ELSE NoAcl
    /\ bucket' = IF FrontendBucket \in resources' THEN bucket ELSE EmptyDir
    /\ UNCHANGED <<Pipeline, calls, work>>

\* An upload or a delete of a sync into the bucket.
ObjectTransfer(op, d) ==
    /\ FrontendBucket \in resources
    /\ bucket' = Transfer(op, [n \in Names |-> d], bucket)
    /\ bucket' # bucket
    /\ UNCHANGED <<resources, webAcl, Pipeline, calls, work>>

NextLifecycle ==
    \/ \E ok \in BOOLEAN : CdkDeploy(ok)
    \/ CdkDestroy
    \/ \E k \in {"upload", "delete"}, n \in Names, d \in CandidateSet :
           ObjectTransfer([kind |-> k, key |-> n], d)

SpecLifecycle == Init /\ [][NextLifecycle]_vars

\* C7: no deploy and no teardown removes the bucket or changes its objects; a
\* teardown removes every other resource.
C7_BucketSurvives ==
    [][/\ FrontendBucket \in resources => FrontendBucket \in resources'
       /\ resources' # resources => bucket' = bucket
       /\ (resources' # resources /\ resources' \subseteq resources)
             => resources' = {FrontendBucket} \cap resources]_vars
C7_Witness ==
    /\ resources = {FrontendBucket}
    /\ Keys(bucket) # {}

====
